---- MODULE Spec2Model ----
(***************************************************************************)
(* File upload subsystem of RTLSDR-Airband (src/file_upload.cpp): the      *)
(* upload queue with its dedup set, the producers calling enqueue_upload,  *)
(* the uploader thread started by init_file_uploader and                   *)
(* shutdown_file_uploader.                                                 *)
(***************************************************************************)
EXTENDS Bags, FiniteSets, Integers, Sequences, TLC

\* ------------------------------------------------------------------ bounds
\* The clock runs from 0 to MaxTime.
MaxTime == 2
\* Producers start a call to enqueue_upload only while fewer tasks than this
\* are queued, held by the uploader or being enqueued.
MaxQueue == 2

\* Under sustained load a producer starts a call while fewer tasks than this
\* are queued, held by the uploader or being enqueued.
MaxBusy == MaxQueue + 1

\* --------------------------------------------------------------- constants
NONE == "none"
WORKER == "worker"
Producers == {"p1", "p2"}

\* The literal "_uploaded" of the rename and of the scan, one character per element.
Marker == <<"_", "u", "p", "l", "o", "a", "d", "e", "d">>

EmptyPath == <<>>
PathA == <<"a", ".", "m">>
PathB == <<"b">>
\* The paths a producer may pass to enqueue_upload.
Paths == {EmptyPath, PathA, PathB}

\* file_data, the fields the uploader reads.
CfgOff == [upload_url |-> "", delete_after_upload |-> FALSE, upload_retry_interval |-> 1]
CfgDel == [upload_url |-> "u", delete_after_upload |-> TRUE, upload_retry_interval |-> 1]
CfgKeep == [upload_url |-> "u", delete_after_upload |-> FALSE, upload_retry_interval |-> 2]
Configs == {CfgOff, CfgDel, CfgKeep}

\* The calls enqueue_upload(path, data) the producers make.
Calls == {<<EmptyPath, CfgDel>>, <<PathA, CfgOff>>, <<PathA, CfgDel>>, <<PathA, CfgKeep>>,
          <<PathB, CfgKeep>>}

\* struct upload_task
MkTask(path, data, next_try) == [path |-> path, config |-> data, next_try |-> next_try]

\* The uploader thread's local `task` outside its scope.
NoTask == MkTask(EmptyPath, CfgOff, 0)

\* The arguments of a producer that is not inside enqueue_upload.
NoArgs == [path |-> EmptyPath, data |-> CfgOff]

\* ------------------------------------------------- the recording directory
\* The output's basedir and the regular files found below it at start-up.  A
\* directory exists when a file lies below it.
BaseDir == <<"d">>
FileAM == <<"d", "/", "a", ".", "m">>
FileAMDone == <<"d", "/", "a">> \o Marker \o <<".", "m">>
FileHidden == <<"d", "/", ".", "h", ".", "m">>
FileB == <<"d", "/", "b">>
FileBDone == <<"d", "/", "b">> \o Marker
FileSubC == <<"d", "/", "s", "/", "c", ".", "m">>
FileDotDirG == <<"d", "/", "e", ".", "f", "/", "g">>
FileHiddenDirC == <<"d", "/", ".", "k", "/", "c", ".", "m">>
FileMovedZ == <<"d", "/", "e">> \o Marker \o <<".", "f", "/", "z">>
Recorded ==
    {FileAM, FileAMDone, FileHidden, FileB, FileBDone, FileSubC, FileDotDirG, FileHiddenDirC}
\* Files that may or may not be there as well.
Optional == {FileMovedZ}

\* The values of file_data.suffix: none, an extension, the end of a full path.
Suffixes == {<<>>, <<".", "m">>, <<"/", "b">>}

\* file_data of a file output, the fields file_upload.cpp reads.
ScanConfigs ==
    [upload_url : {"", "u"}, delete_after_upload : BOOLEAN, upload_retry_interval : {1},
     dated_subdirectories : BOOLEAN, suffix : Suffixes, basedir : {BaseDir},
     upload_pending_on_start : BOOLEAN]

\* scan_pending_uploads has not been called.
NoScan == [pc |-> "idle", data |-> CfgOff]

VARIABLES
    upload_queue,      \* bag of upload_task: the priority queue's content
    queued_files,      \* set of paths: the dedup set
    queue_mutex,       \* owner of the mutex: NONE, WORKER or a producer
    queue_cv,          \* "idle" (no waiter), "waiting" (uploader blocked), "notified"
    uploader_running,  \* the atomic flag
    files,             \* the paths that exist on disk
    clock,             \* time(NULL)
    wpc,               \* position of the uploader thread
    task,              \* uploader local: the popped task
    now,               \* uploader local
    next,              \* uploader local
    ok,                \* uploader local: result of upload_file
    ppc,               \* position of each producer inside enqueue_upload
    parg,              \* arguments of each producer's call
    spc,               \* position of the caller of shutdown_file_uploader
    scan               \* scan_pending_uploads: its position and the output's file_data

vars == <<upload_queue, queued_files, queue_mutex, queue_cv, uploader_running, files,
          clock, wpc, task, now, next, ok, ppc, parg, spc, scan>>

\* ------------------------------------------------------------ pure helpers
Max(S) == CHOOSE x \in S : \A y \in S : y <= x
Min(S) == CHOOSE x \in S : \A y \in S : x <= y

\* std::string::find_last_of(c): the last index (1-based) of c in s, 0 for npos.
FindLastOf(s, c) ==
    LET hits == {i \in 1..Len(s) : s[i] = c}
    IN IF hits = {} THEN 0 ELSE Max(hits)

\* The name the success branch renames a delivered file to.
Renamed(path) ==
    LET dot == FindLastOf(path, ".")
    IN IF dot # 0
       THEN SubSeq(path, 1, dot - 1) \o Marker \o SubSeq(path, dot, Len(path))
       ELSE path \o Marker

\* s begins with pre / s ends with suf (size check and substr comparison).
HasPrefix(s, pre) == Len(s) >= Len(pre) /\ SubSeq(s, 1, Len(pre)) = pre
HasSuffix(s, suf) == Len(s) >= Len(suf) /\ SubSeq(s, Len(s) - Len(suf) + 1, Len(s)) = suf

\* The directory part of a path ("" for a name in the working directory).
DirName(path) == SubSeq(path, 1, FindLastOf(path, "/") - 1)

\* opendir / rename see a directory when it is the working directory or a file
\* lies below it.
DirExists(fs, dir) == dir = <<>> \/ \E f \in fs : HasPrefix(f, dir \o <<"/">>)

\* readdir(dir): the d_name of every entry of dir.
EntryNames(fs, dir) ==
    {LET rest == SubSeq(f, Len(dir) + 2, Len(f))
         slashes == {i \in 1..Len(rest) : rest[i] = "/"}
     IN IF slashes = {} THEN rest ELSE SubSeq(rest, 1, Min(slashes) - 1)
       : f \in {g \in fs : HasPrefix(g, dir \o <<"/">>)}}

\* Variant: the marker is looked for at the end of the whole file name.
StemUploadedWholeName(filename) == HasSuffix(filename, Marker)

\* stem = filename up to its last '.', or all of it; does stem end with "_uploaded"?
StemUploaded(filename) ==
    LET dot == FindLastOf(filename, ".")
        stem == IF dot # 0 THEN SubSeq(filename, 1, dot - 1) ELSE filename
    IN HasSuffix(stem, Marker)

\* scan_directory(cfg, dir): the paths it passes to enqueue_upload.
RECURSIVE scan_directory(_, _, _)
scan_directory(fs, cfg, dir) ==
    UNION {LET path == dir \o <<"/">> \o name
           IN IF name[1] = "."
              THEN {}
              ELSE IF DirExists(fs, path) /\ cfg.dated_subdirectories
              THEN scan_directory(fs, cfg, path)
              ELSE IF path \in fs
              THEN IF StemUploaded(name)
                   THEN {}
                   ELSE IF cfg.suffix = <<>> \/ HasSuffix(path, cfg.suffix)
                   THEN {path}
                   ELSE {}
              ELSE {}
             : name \in EntryNames(fs, dir)}

\* Number of queued tasks for a path.
CountFor(q, path) ==
    LET ts == {t \in BagToSet(q) : t.path = path}
        RECURSIVE Sum(_)
        Sum(S) == IF S = {} THEN 0
                  ELSE LET t == CHOOSE x \in S : TRUE
                       IN CopiesIn(t, q) + Sum(S \ {t})
    IN Sum(ts)

QueuedPaths(q) == {t.path : t \in BagToSet(q)}

\* Variant: top() may be any queued task.
TopTasksAny(q) == BagToSet(q)

\* task_compare orders the queue by next_try ascending: top() is a task of
\* minimal next_try (which one among equals is the heap's business).
TopTasks(q) ==
    {t \in BagToSet(q) : \A u \in BagToSet(q) : t.next_try <= u.next_try}

\* Variant: the notification does not reach a blocked uploader.
NotifyNothing(cv) == cv

\* queue_cv.notify_all(): a blocked uploader becomes runnable, otherwise nothing.
NotifyAll(cv) == IF cv = "waiting" THEN "notified" ELSE cv

\* ------------------------------------------------------------------- Init
\* The state right after init_file_uploader: the flag is set, the thread is
\* created and has not yet taken the mutex; the recorder has written its files.
Init ==
    /\ upload_queue = EmptyBag
    /\ queued_files = {}
    /\ queue_mutex = NONE
    /\ queue_cv = "idle"
    /\ uploader_running = TRUE
    /\ files = Paths \ {EmptyPath}
    /\ clock = 0
    /\ wpc = "start"
    /\ task = NoTask
    /\ now = 0
    /\ next = 0
    /\ ok = FALSE
    /\ ppc = [p \in Producers |-> "idle"]
    /\ parg = [p \in Producers |-> NoArgs]
    /\ spc = "idle"
    /\ scan = NoScan

\* ---------------------------------------------------------- enqueue_upload
\* Variant: only the empty path is turned away.
EnqueueRejectsEmptyPathOnly(path, data) == path = EmptyPath

\* if (path.empty() || data.upload_url.empty()) return;
EnqueueRejects(path, data) == path = EmptyPath \/ data.upload_url = ""

\* Variant: the pushed task carries a default configuration, not the caller's.
FreshTaskDefaultCfg(path, data) == MkTask(path, CfgDel, 0)

\* upload_queue.push({path, data, 0})
FreshTask(path, data) == MkTask(path, data, 0)

\* Tasks queued, held by the uploader, or about to be pushed by a producer.
InSystem ==
    BagCardinality(upload_queue) + Cardinality({p \in Producers : ppc[p] # "idle"})
        + (IF task = NoTask THEN 0 ELSE 1)

\* A producer thread enters enqueue_upload(path, data).
EnqCall(p, path, data) ==
    /\ UNCHANGED scan
    /\ ppc[p] = "idle"
    /\ InSystem < MaxQueue
    /\ ppc' = [ppc EXCEPT ![p] = "check"]
    /\ parg' = [parg EXCEPT ![p] = [path |-> path, data |-> data]]
    /\ UNCHANGED <<upload_queue, queued_files, queue_mutex, queue_cv, uploader_running,
                   files, clock, wpc, task, now, next, ok, spc>>

\* The recorder that keeps producing files and the calls it makes.
Recorder == "p1"
BusyCalls == {<<PathA, CfgDel>>, <<PathB, CfgKeep>>}

\* The recorder enters enqueue_upload(path, data).
BusyCall(path, data) ==
    /\ ppc[Recorder] = "idle"
    /\ InSystem < MaxBusy
    /\ ppc' = [ppc EXCEPT ![Recorder] = "check"]
    /\ parg' = [parg EXCEPT ![Recorder] = [path |-> path, data |-> data]]
    /\ UNCHANGED <<upload_queue, queued_files, queue_mutex, queue_cv, uploader_running,
                   files, clock, wpc, task, now, next, ok, spc, scan>>

\* The early return on an empty path or an empty upload_url.
EnqCheck(p) ==
    /\ UNCHANGED scan
    /\ ppc[p] = "check"
    /\ IF EnqueueRejects(parg[p].path, parg[p].data)
       THEN /\ ppc' = [ppc EXCEPT ![p] = "idle"]
            /\ parg' = [parg EXCEPT ![p] = NoArgs]
       ELSE /\ ppc' = [ppc EXCEPT ![p] = "lock"]
            /\ UNCHANGED parg
    /\ UNCHANGED <<upload_queue, queued_files, queue_mutex, queue_cv, uploader_running,
                   files, clock, wpc, task, now, next, ok, spc>>

\* std::lock_guard<std::mutex> lock(queue_mutex);
EnqLock(p) ==
    /\ UNCHANGED scan
    /\ ppc[p] = "lock"
    /\ queue_mutex = NONE
    /\ queue_mutex' = p
    /\ ppc' = [ppc EXCEPT ![p] = "insert"]
    /\ UNCHANGED <<upload_queue, queued_files, queue_cv, uploader_running, files, clock,
                   wpc, task, now, next, ok, parg, spc>>

\* if (queued_files.insert(path).second) { push; notify_all; }  and the unlock
\* at the end of the scope.
EnqInsert(p) ==
    /\ UNCHANGED scan
    /\ ppc[p] = "insert"
    /\ queue_mutex = p
    /\ IF parg[p].path \notin queued_files
       THEN /\ queued_files' = queued_files \cup {parg[p].path}
            /\ upload_queue' = upload_queue (+) SetToBag({FreshTask(parg[p].path, parg[p].data)})
            /\ queue_cv' = NotifyAll(queue_cv)
       ELSE UNCHANGED <<queued_files, upload_queue, queue_cv>>
    /\ queue_mutex' = NONE
    /\ ppc' = [ppc EXCEPT ![p] = "idle"]
    /\ parg' = [parg EXCEPT ![p] = NoArgs]
    /\ UNCHANGED <<uploader_running, files, clock, wpc, task, now, next, ok, spc>>

\* ------------------------------------------------- the uploader thread
\* std::unique_lock<std::mutex> lock(queue_mutex);
WStart ==
    /\ UNCHANGED scan
    /\ wpc = "start"
    /\ queue_mutex = NONE
    /\ queue_mutex' = WORKER
    /\ wpc' = "loop"
    /\ UNCHANGED <<upload_queue, queued_files, queue_cv, uploader_running, files, clock,
                   task, now, next, ok, ppc, parg, spc>>

\* Variant: the loop drains the queue before it looks at the flag.
WLoopDrains ==
    /\ UNCHANGED scan
    /\ wpc = "loop"
    /\ IF ~uploader_running /\ upload_queue = EmptyBag
       THEN /\ wpc' = "exited"
            /\ queue_mutex' = NONE
       ELSE /\ wpc' = IF upload_queue = EmptyBag THEN "pred" ELSE "time"
            /\ UNCHANGED queue_mutex
    /\ UNCHANGED <<upload_queue, queued_files, queue_cv, uploader_running, files, clock,
                   task, now, next, ok, ppc, parg, spc>>

\* while (uploader_running) { if (upload_queue.empty()) ... else ... }
\* Leaving the loop ends the thread; the unique_lock's destructor unlocks.
WLoop ==
    /\ UNCHANGED scan
    /\ wpc = "loop"
    /\ IF ~uploader_running
       THEN /\ wpc' = "exited"
            /\ queue_mutex' = NONE
       ELSE /\ wpc' = IF upload_queue = EmptyBag THEN "pred" ELSE "time"
            /\ UNCHANGED queue_mutex
    /\ UNCHANGED <<upload_queue, queued_files, queue_cv, uploader_running, files, clock,
                   task, now, next, ok, ppc, parg, spc>>

\* queue_cv.wait(lock, pred): pred is evaluated with the mutex held; when it
\* is false the thread goes on to block.
WPred ==
    /\ UNCHANGED scan
    /\ wpc = "pred"
    /\ wpc' = IF ~uploader_running \/ upload_queue # EmptyBag THEN "waited" ELSE "block"
    /\ UNCHANGED <<upload_queue, queued_files, queue_mutex, queue_cv, uploader_running,
                   files, clock, task, now, next, ok, ppc, parg, spc>>

\* The wait itself: unlock and block, atomically.
WBlock ==
    /\ UNCHANGED scan
    /\ wpc = "block"
    /\ queue_mutex' = NONE
    /\ queue_cv' = "waiting"
    /\ wpc' = "wait"
    /\ UNCHANGED <<upload_queue, queued_files, uploader_running, files, clock, task, now,
                   next, ok, ppc, parg, spc>>

\* A notified waiter takes the mutex again and re-evaluates pred.
WWake ==
    /\ UNCHANGED scan
    /\ wpc = "wait"
    /\ queue_cv = "notified"
    /\ queue_mutex = NONE
    /\ queue_mutex' = WORKER
    /\ queue_cv' = "idle"
    /\ wpc' = "pred"
    /\ UNCHANGED <<upload_queue, queued_files, uploader_running, files, clock, task, now,
                   next, ok, ppc, parg, spc>>

\* A condition variable may wake a waiter spuriously.
WSpurious ==
    /\ UNCHANGED scan
    /\ wpc \in {"wait", "wait_until"}
    /\ queue_cv = "waiting"
    /\ queue_cv' = "notified"
    /\ UNCHANGED <<upload_queue, queued_files, queue_mutex, uploader_running, files, clock,
                   wpc, task, now, next, ok, ppc, parg, spc>>

\* if (!uploader_running) break;
WWaited ==
    /\ UNCHANGED scan
    /\ wpc = "waited"
    /\ IF ~uploader_running
       THEN /\ wpc' = "exited"
            /\ queue_mutex' = NONE
       ELSE /\ wpc' = "loop"
            /\ UNCHANGED queue_mutex
    /\ UNCHANGED <<upload_queue, queued_files, queue_cv, uploader_running, files, clock,
                   task, now, next, ok, ppc, parg, spc>>

\* Variant: the comparison is off by one second.
MustWaitLate(nxt, nw) == nxt > nw + 1

\* if (next > now)
MustWait(nxt, nw) == nxt > nw

\* time_t now = time(NULL); time_t next = upload_queue.top().next_try;
WTime ==
    /\ UNCHANGED scan
    /\ wpc = "time"
    /\ now' = clock
    /\ next' = Min({t.next_try : t \in BagToSet(upload_queue)})
    /\ wpc' = IF MustWait(next', now') THEN "block_until" ELSE "pop"
    /\ UNCHANGED <<upload_queue, queued_files, queue_mutex, queue_cv, uploader_running,
                   files, clock, task, ok, ppc, parg, spc>>

\* queue_cv.wait_until(lock, from_time_t(next)): unlock and block.
WBlockUntil ==
    /\ UNCHANGED scan
    /\ wpc = "block_until"
    /\ queue_mutex' = NONE
    /\ queue_cv' = "waiting"
    /\ wpc' = "wait_until"
    /\ UNCHANGED <<upload_queue, queued_files, uploader_running, files, clock, task, now,
                   next, ok, ppc, parg, spc>>

\* wait_until returns on a notification or at the deadline, with the mutex
\* taken again; continue goes back to the loop condition.
WWakeUntil ==
    /\ UNCHANGED scan
    /\ wpc = "wait_until"
    /\ queue_cv = "notified" \/ clock >= next
    /\ queue_mutex = NONE
    /\ queue_mutex' = WORKER
    /\ queue_cv' = "idle"
    /\ wpc' = "loop"
    /\ now' = 0
    /\ next' = 0
    /\ UNCHANGED <<upload_queue, queued_files, uploader_running, files, clock, task, ok,
                   ppc, parg, spc>>

\* Variant: the unlock after the pop is missing.
MutexKeptAfterPop == WORKER

\* lock.unlock() after the pop: the owner of the mutex during upload_file.
MutexAfterPop == NONE

\* upload_task task = top(); pop(); queued_files.erase(task.path); lock.unlock();
WPop ==
    /\ UNCHANGED scan
    /\ wpc = "pop"
    /\ \E t \in TopTasks(upload_queue) :
          /\ task' = t
          /\ upload_queue' = upload_queue (-) SetToBag({t})
          /\ queued_files' = queued_files \ {t.path}
    /\ queue_mutex' = MutexAfterPop
    /\ wpc' = "upload"
    /\ now' = 0
    /\ next' = 0
    /\ UNCHANGED <<queue_cv, uploader_running, files, clock, ok, ppc, parg, spc>>

\* Variant: the retry interval is not added.
RetryTimeNoDelay(t, time) == time

\* task.next_try = time(NULL) + task.config.upload_retry_interval
RetryTime(t, time) == time + t.config.upload_retry_interval

\* bool ok = upload_file(task): the network decides. A failure is taken only
\* while its retry deadline still fits under MaxTime.
WUpload ==
    /\ UNCHANGED scan
    /\ wpc = "upload"
    /\ \E r \in BOOLEAN :
          /\ r \/ RetryTime(task, clock) <= MaxTime
          /\ ok' = r
    /\ wpc' = "outcome"
    /\ UNCHANGED <<upload_queue, queued_files, queue_mutex, queue_cv, uploader_running,
                   files, clock, task, now, next, ppc, parg, spc>>

\* unlink(path) / rename(path, renamed): a missing file makes either fail, which
\* the code ignores.
AfterSuccess(fs, t) ==
    IF t.config.delete_after_upload
    THEN fs \ {t.path}
    ELSE IF t.path \in fs /\ DirExists(fs, DirName(Renamed(t.path)))
         THEN (fs \ {t.path}) \cup {Renamed(t.path)}
         ELSE fs

\* Variant: a failed delivery ends the thread instead of being rescheduled.
WOutcomeGivesUp ==
    /\ UNCHANGED scan
    /\ wpc = "outcome"
    /\ IF ok
       THEN /\ files' = AfterSuccess(files, task)
            /\ wpc' = "relock"
            /\ UNCHANGED task
       ELSE /\ task' = NoTask
            /\ wpc' = "exited"
            /\ UNCHANGED files
    /\ ok' = FALSE
    /\ UNCHANGED <<upload_queue, queued_files, queue_mutex, queue_cv, uploader_running,
                   clock, now, next, ppc, parg, spc>>

\* if (ok) { delete or rename } else { task.next_try = ...; (then the relock) }
WOutcome ==
    /\ UNCHANGED scan
    /\ wpc = "outcome"
    /\ IF ok
       THEN /\ files' = AfterSuccess(files, task)
            /\ wpc' = "relock"
            /\ UNCHANGED task
       ELSE /\ task' = [task EXCEPT !.next_try = RetryTime(task, clock)]
            /\ wpc' = "requeue_lock"
            /\ UNCHANGED files
    /\ ok' = FALSE
    /\ UNCHANGED <<upload_queue, queued_files, queue_mutex, queue_cv, uploader_running,
                   clock, now, next, ppc, parg, spc>>

\* std::lock_guard<std::mutex> relock(queue_mutex);
WRequeueLock ==
    /\ UNCHANGED scan
    /\ wpc = "requeue_lock"
    /\ queue_mutex = NONE
    /\ queue_mutex' = WORKER
    /\ wpc' = "requeue"
    /\ UNCHANGED <<upload_queue, queued_files, queue_cv, uploader_running, files, clock,
                   task, now, next, ok, ppc, parg, spc>>

\* Variant: the failed task is not pushed back.
RequeueDropped(q, t) == q

\* upload_queue.push(task)
Requeued(q, t) == q (+) SetToBag({t})

\* queued_files.insert(task.path); upload_queue.push(task); notify_all; and
\* the unlock at the end of the else block.
WRequeue ==
    /\ UNCHANGED scan
    /\ wpc = "requeue"
    /\ queue_mutex = WORKER
    /\ queued_files' = queued_files \cup {task.path}
    /\ upload_queue' = Requeued(upload_queue, task)
    /\ queue_cv' = NotifyAll(queue_cv)
    /\ queue_mutex' = NONE
    /\ wpc' = "relock"
    /\ UNCHANGED <<uploader_running, files, clock, task, now, next, ok, ppc, parg, spc>>

\* lock.lock(); the iteration ends and `task` leaves its scope.
WRelock ==
    /\ UNCHANGED scan
    /\ wpc = "relock"
    /\ queue_mutex = NONE
    /\ queue_mutex' = WORKER
    /\ task' = NoTask
    /\ wpc' = "loop"
    /\ UNCHANGED <<upload_queue, queued_files, queue_cv, uploader_running, files, clock,
                   now, next, ok, ppc, parg, spc>>

\* ------------------------------------------------- shutdown_file_uploader
\* uploader_running = false;
SdSetFlag ==
    /\ UNCHANGED scan
    /\ spc = "idle"
    /\ uploader_running' = FALSE
    /\ spc' = "notify"
    /\ UNCHANGED <<upload_queue, queued_files, queue_mutex, queue_cv, files, clock, wpc,
                   task, now, next, ok, ppc, parg>>

\* queue_cv.notify_all();  (the mutex is not taken)
SdNotify ==
    /\ UNCHANGED scan
    /\ spc = "notify"
    /\ queue_cv' = NotifyAll(queue_cv)
    /\ spc' = "join"
    /\ UNCHANGED <<upload_queue, queued_files, queue_mutex, uploader_running, files, clock,
                   wpc, task, now, next, ok, ppc, parg>>

\* Variant: the thread is not joined.
JoinReturnsAtOnce == TRUE

\* uploader_thread.join() returns once the thread has ended.
JoinReturns == wpc = "exited"

\* join(); curl_global_cleanup(); return.
SdJoin ==
    /\ UNCHANGED scan
    /\ spc = "join"
    /\ JoinReturns
    /\ spc' = "done"
    /\ UNCHANGED <<upload_queue, queued_files, queue_mutex, queue_cv, uploader_running,
                   files, clock, wpc, task, now, next, ok, ppc, parg>>

\* ----------------------------------------------------- scan_pending_uploads
\* scan_pending_uploads reaches a file output; it scans the output's basedir
\* if (fdata && !fdata->upload_url.empty() && fdata->upload_pending_on_start).
ScanSelect ==
    /\ scan.pc = "idle"
    /\ \E data \in ScanConfigs :
          scan' = [pc |-> IF data.upload_url # "" /\ data.upload_pending_on_start
                          THEN "dir" ELSE "done",
                   data |-> data]
    /\ UNCHANGED <<upload_queue, queued_files, queue_mutex, queue_cv, uploader_running,
                   files, clock, wpc, task, now, next, ok, ppc, parg, spc>>

\* scan_directory(*fdata, fdata->basedir) with its calls of enqueue_upload: each
\* path found goes through the early return and the insert into queued_files.
ScanPendingUploads ==
    /\ scan.pc = "dir"
    /\ queue_mutex = NONE
    /\ LET found == scan_directory(files, scan.data, scan.data.basedir)
           accepted == {path \in found :
                          ~EnqueueRejects(path, scan.data) /\ path \notin queued_files}
       IN /\ queued_files' = queued_files \cup accepted
          /\ upload_queue' =
                upload_queue (+) SetToBag({FreshTask(path, scan.data) : path \in accepted})
          /\ queue_cv' = IF accepted # {} THEN NotifyAll(queue_cv) ELSE queue_cv
    /\ scan' = [scan EXCEPT !.pc = "done"]
    /\ UNCHANGED <<queue_mutex, uploader_running, files, clock, wpc, task, now, next, ok,
                   ppc, parg, spc>>

\* ------------------------------------------------------------------- time
\* A second passes. The clock stops at MaxTime, and does not pass the last
\* second at which the failure being handled can still be given its deadline.
Tick ==
    /\ UNCHANGED scan
    /\ clock < MaxTime
    /\ ~(wpc = "outcome" /\ ~ok /\ RetryTime(task, clock + 1) > MaxTime)
    /\ clock' = clock + 1
    /\ UNCHANGED <<upload_queue, queued_files, queue_mutex, queue_cv, uploader_running,
                   files, wpc, task, now, next, ok, ppc, parg, spc>>

\* ---------------------------------------------------------- specification
Producer == \E p \in Producers :
    \/ \E c \in Calls : EnqCall(p, c[1], c[2])
    \/ EnqCheck(p)
    \/ EnqLock(p)
    \/ EnqInsert(p)

Worker ==
    \/ WStart \/ WLoop \/ WPred \/ WBlock \/ WWake \/ WWaited
    \/ WTime \/ WBlockUntil \/ WWakeUntil \/ WPop \/ WUpload \/ WOutcome
    \/ WRequeueLock \/ WRequeue \/ WRelock

Shutdown == SdSetFlag \/ SdNotify \/ SdJoin

Next == Producer \/ Worker \/ WSpurious \/ Shutdown \/ Tick

Spec == Init /\ [][Next]_vars

\* The uploader thread and the caller of shutdown keep running, the uploader
\* gets the mutex when it is free again and again, a producer that has entered
\* enqueue_upload finishes the call, and time passes. Producers are free to
\* stop calling, and no spurious wakeup is promised.
FairSpec ==
    /\ Spec
    /\ \A p \in Producers : WF_vars(EnqCheck(p) \/ EnqLock(p) \/ EnqInsert(p))
    /\ WF_vars(Worker)
    /\ SF_vars(WStart \/ WWake \/ WWakeUntil \/ WRequeueLock \/ WRelock)
    /\ WF_vars(Shutdown)
    /\ WF_vars(Tick)

\* The same scheduling assumptions without the assumption that shutdown is
\* ever requested: producers finish their calls, the uploader thread runs when
\* it can and gets the mutex when it is free again and again, time advances.
LiveSpec ==
    /\ Spec
    /\ \A p \in Producers : WF_vars(EnqCheck(p) \/ EnqLock(p) \/ EnqInsert(p))
    /\ WF_vars(Worker)
    /\ SF_vars(WStart \/ WWake \/ WWakeUntil \/ WRequeueLock \/ WRelock)
    /\ WF_vars(Tick)

\* Start-up with recordings left on disk: scan_pending_uploads runs once, no
\* other producer calls enqueue_upload, shutdown is not requested.
FsInit ==
    /\ upload_queue = EmptyBag
    /\ queued_files = {}
    /\ queue_mutex = NONE
    /\ queue_cv = "idle"
    /\ uploader_running = TRUE
    /\ files \in {Recorded \cup more : more \in SUBSET Optional}
    /\ clock = 0
    /\ wpc = "start"
    /\ task = NoTask
    /\ now = 0
    /\ next = 0
    /\ ok = FALSE
    /\ ppc = [p \in Producers |-> "idle"]
    /\ parg = [p \in Producers |-> NoArgs]
    /\ spc = "idle"
    /\ scan = NoScan

FsNext == ScanSelect \/ ScanPendingUploads \/ Worker \/ Tick

FsSpec == FsInit /\ [][FsNext]_vars

\* Sustained load: one recorder keeps enqueueing, shutdown is not requested.
\* The recorder finishes its calls and the uploader runs when it can, both get
\* the mutex when it is free again and again, time advances.
BusyProducer ==
    \/ \E c \in BusyCalls : BusyCall(c[1], c[2])
    \/ EnqCheck(Recorder)
    \/ EnqLock(Recorder)
    \/ EnqInsert(Recorder)

BusyNext == BusyProducer \/ Worker \/ Tick

BusySpec ==
    /\ Init
    /\ [][BusyNext]_vars
    /\ WF_vars(EnqCheck(Recorder) \/ EnqInsert(Recorder))
    /\ SF_vars(EnqLock(Recorder))
    /\ WF_vars(Worker)
    /\ SF_vars(WStart \/ WWake \/ WWakeUntil \/ WRequeueLock \/ WRelock)
    /\ WF_vars(Tick)

\* ------------------------------------------------------------------ claims
\* The positions of the uploader between the pop and the end of the
\* outcome handling: a delivery attempt is in progress.
Delivering == {"upload", "outcome", "requeue_lock", "requeue"}

\* The step in which producer p leaves enqueue_upload's critical section.
InsertStep(p) == ppc[p] = "insert" /\ ppc'[p] = "idle"

\* The step in which scan_pending_uploads walks the directory and enqueues.
ScanStep == scan.pc = "dir" /\ scan'.pc = "done"

\* The steps of the uploader: the pop, the requeue, the two outcomes.
PopStep == wpc = "pop" /\ wpc' = "upload"
RequeueStep == wpc = "requeue" /\ wpc' = "relock"
SuccessStep == wpc = "outcome" /\ wpc' = "relock"
FailureStep == wpc = "outcome" /\ wpc' = "requeue_lock"

\* C1: in every reachable state the scheduling queue holds at most one
\* pending task per path.
C1_AtMostOnePendingPerPath ==
    \A path \in Paths : CountFor(upload_queue, path) <= 1

\* C2: while a path's dedup key is held (an enqueue was accepted and the
\* uploader has not popped since), the store holds exactly one pending task
\* for that path, and an enqueue of that path changes neither the queue nor
\* the dedup set.
C2_DuplicateEnqueueIsNoOp ==
    /\ [](\A path \in queued_files : CountFor(upload_queue, path) = 1)
    /\ [][\A p \in Producers :
            (InsertStep(p) /\ parg[p].path \in queued_files)
                => UNCHANGED <<upload_queue, queued_files>>]_vars

\* C10: when a Success outcome is applied for a path, the store holds no
\* task for that path (no enqueue can have come after the success yet), so
\* no further delivery attempt is made for it.
C10_NoTaskLeftAfterSuccess ==
    [][SuccessStep => task.path \notin QueuedPaths(upload_queue')]_vars

\* C3: whenever the uploader has popped a task for a delivery attempt, the
\* task's next_try is not later than the time of the pop (the pop does not
\* move the clock, so the first state after it shows the time of the pop).
C3_NeverPoppedEarly ==
    [][(wpc = "pop" /\ wpc' = "upload") => task'.next_try <= clock]_vars

\* A retried task, whose deadline has been waited for, is being delivered.
C3_Witness ==
    wpc = "upload" /\ task.next_try > 0 /\ task.next_try = clock

\* C4: handling a Failure sets the task's next_try to the time of the
\* handling plus the task's own retry interval, leaving path and config
\* alone, and the requeue adds exactly that task to the queue.
C4_RequeuedWithRetryInterval ==
    [][/\ FailureStep =>
            task' = MkTask(task.path, task.config,
                           clock + task.config.upload_retry_interval)
       /\ (wpc = "requeue" /\ wpc' = "relock") =>
            /\ task' = task
            /\ CopiesIn(task, upload_queue') = CopiesIn(task, upload_queue) + 1
            /\ BagCardinality(upload_queue') = BagCardinality(upload_queue) + 1]_vars

\* A failed task with a two-second interval sits in the queue with its deadline.
C4_Witness ==
    /\ wpc = "relock"
    /\ BagIn(task, upload_queue)
    /\ task.config.upload_retry_interval = 2
    /\ task.next_try = clock + 2

\* C5: when shutdown_file_uploader has returned, the uploader thread has
\* ended, and it ends only between iterations: with no popped task in hand
\* and without the mutex.
C5_ShutdownWaitsForDelivery ==
    /\ spc = "done" => wpc = "exited"
    /\ wpc = "exited" => task = NoTask /\ queue_mutex # WORKER

\* Shutdown has set the flag and notified and is blocked in join while the
\* uploader is in the middle of an attempt.
C5_Witness ==
    spc = "join" /\ ~uploader_running /\ wpc = "outcome"

\* C7: while a delivery attempt is in progress the uploader does not own the
\* mutex, and it does not own it either where it is about to take it.
C7_NoLockAcrossDelivery ==
    wpc \in {"upload", "outcome", "requeue_lock", "start", "relock", "wait", "wait_until"}
        => queue_mutex # WORKER

\* A producer is inside enqueue_upload's critical section during upload_file.
C7_Witness ==
    wpc = "upload" /\ \E p \in Producers : queue_mutex = p /\ ppc[p] = "insert"

\* C8: a call with an empty path or an empty upload_url returns having
\* changed neither queue, dedup set nor condition variable, and never gets to
\* the critical section; a call that gets there for a path with no pending
\* task adds exactly one task with next_try = 0, adds the path to the dedup
\* set and notifies a blocked uploader.
C8_EnqueueContract ==
    [][\A p \in Producers :
        LET path == parg[p].path
            data == parg[p].data
        IN /\ (ppc[p] = "check" /\ ppc'[p] # "check"
                    /\ (path = EmptyPath \/ data.upload_url = ""))
                => /\ ppc'[p] = "idle"
                   /\ UNCHANGED <<upload_queue, queued_files, queue_cv, queue_mutex>>
           /\ (InsertStep(p) /\ CountFor(upload_queue, path) = 0)
                => /\ path # EmptyPath /\ data.upload_url # ""
                   /\ upload_queue' = upload_queue (+) SetToBag({MkTask(path, data, 0)})
                   /\ queued_files' = queued_files \cup {path}
                   /\ path \notin queued_files
                   /\ queue_cv = "waiting" => queue_cv' = "notified"]_vars

\* An accepted enqueue has just notified the uploader blocked on the empty queue.
C8_Witness ==
    /\ wpc = "wait"
    /\ queue_cv = "notified"
    /\ \E t \in BagToSet(upload_queue) : t.next_try = 0 /\ t.path \in queued_files

\* A path is represented: a task for it is queued, or is being delivered.
Represented(path) ==
    \/ path \in QueuedPaths(upload_queue)
    \/ task.path = path /\ wpc \in Delivering

\* C9: an accepted enqueue leaves its path represented, and a represented
\* path stays represented over every step except the one that applies a
\* Success outcome for it; in particular every Failure puts the task back.
C9_NeverDropped ==
    [][\A path \in Paths \ {EmptyPath} :
        /\ (\E p \in Producers : InsertStep(p) /\ parg[p].path = path)
                => Represented(path)'
        /\ (Represented(path) /\ ~(SuccessStep /\ task.path = path))
                => Represented(path)']_vars

\* A task that failed is back in the queue and nothing else stands for its path.
C9_Witness ==
    /\ wpc = "relock"
    /\ task.next_try > 0
    /\ CountFor(upload_queue, task.path) = 1
    /\ BagIn(task, upload_queue)

\* C6: whenever shutdown_file_uploader is called, the uploader thread
\* eventually leaves its loop and the call eventually returns.
C6_ShutdownReturns ==
    (spc # "idle") ~> (spc = "done" /\ wpc = "exited")

\* C11: in every reachable state in which the uploader thread has left its
\* loop, shutdown has been requested: the flag is cleared and
\* shutdown_file_uploader has been entered.
C11_ExitsOnlyOnShutdown ==
    wpc = "exited" => ~uploader_running /\ spc # "idle"

\* The thread has ended after a delivery failed and was rescheduled.
C11_Witness ==
    /\ wpc = "exited"
    /\ \E t \in BagToSet(upload_queue) : t.next_try > 0

\* C15: while a failed task waits in the queue for its retry time, its path
\* is in queued_files, so that enqueue_upload of that path is rejected.
C15_BackoffKeepsKey ==
    \A t \in BagToSet(upload_queue) :
        t.next_try > clock => t.path \in queued_files

\* C16: whenever the uploader pops a task, that task has the minimal next_try
\* among all queued tasks; in particular a fresh task (next_try 0) is taken
\* before any task waiting for its retry time.
C16_PopsEarliest ==
    [][PopStep =>
        /\ \A u \in BagToSet(upload_queue) : task'.next_try <= u.next_try
        /\ (\E u \in BagToSet(upload_queue) : u.next_try = 0) => task'.next_try = 0]_vars

\* A fresh task was popped while a rescheduled one stayed in the queue.
C16_Witness ==
    /\ wpc = "upload"
    /\ task.next_try = 0
    /\ \E u \in BagToSet(upload_queue) : u.next_try > 0

\* C18: a task carries the file_data of the enqueue_upload call that created
\* it.  The accepted insert pushes one task with the caller's path and data; a
\* rejected duplicate leaves the queue, hence the pending task's configuration,
\* unchanged; the pop hands the uploader a queued task as it is; from the pop to
\* the end of the attempt the task in hand keeps its path and configuration,
\* and the failure branch pushes it back with that configuration; no other
\* step touches the queue.
C18_ConfigSnapshot ==
    [][/\ \A p \in Producers : InsertStep(p) =>
            IF parg[p].path \in queued_files
            THEN upload_queue' = upload_queue
            ELSE \E t \in BagToSet(upload_queue') :
                    /\ t.path = parg[p].path
                    /\ t.config = parg[p].data
                    /\ upload_queue' = upload_queue (+) SetToBag({t})
       /\ PopStep =>
            /\ task' \in BagToSet(upload_queue)
            /\ upload_queue' = upload_queue (-) SetToBag({task'})
       /\ (wpc \in Delivering /\ wpc' \in Delivering) =>
            /\ task'.path = task.path
            /\ task'.config = task.config
       /\ RequeueStep =>
            \E t \in BagToSet(upload_queue') :
                /\ t.path = task.path
                /\ t.config = task.config
                /\ upload_queue' = upload_queue (+) SetToBag({t})
       /\ ~(PopStep \/ RequeueStep \/ \E p \in Producers : InsertStep(p)) =>
            upload_queue' = upload_queue]_vars

\* A producer is about to be rejected as a duplicate of a rescheduled task whose
\* configuration differs from the one it passes.
C18_Witness ==
    \E p \in Producers :
        /\ ppc[p] = "insert"
        /\ parg[p].path \in queued_files
        /\ \E t \in BagToSet(upload_queue) :
              /\ t.path = parg[p].path
              /\ t.next_try > 0
              /\ t.config # parg[p].data

\* C20: once shutdown has cleared the flag, the uploader starts at most one
\* more delivery attempt, and only if it was already past the loop's check of
\* the flag: at the check it leaves the loop, and once an attempt is under way
\* with the flag cleared it never gets to the pop again.  Leaving the loop
\* touches neither the queue nor the files, the flag is never set again, and
\* the ended thread stays ended: no file changes and no queued task is removed.
C20_StopsAfterCurrentAttempt ==
    /\ [][(wpc = "loop" /\ ~uploader_running /\ wpc' # wpc) =>
            /\ wpc' = "exited"
            /\ upload_queue' = upload_queue
            /\ queued_files' = queued_files
            /\ files' = files]_vars
    /\ [][~uploader_running => ~uploader_running']_vars
    /\ [][wpc = "exited" =>
            /\ wpc' = "exited"
            /\ files' = files
            /\ \A t \in BagToSet(upload_queue) :
                  CopiesIn(t, upload_queue') >= CopiesIn(t, upload_queue)]_vars
    /\ []((~uploader_running /\ wpc \in Delivering \cup {"relock"}) => [](wpc # "pop"))

\* The outcome of an attempt has been applied with the flag cleared while a
\* fresh task is still queued.
C20_Witness ==
    /\ ~uploader_running
    /\ wpc = "relock"
    /\ \E t \in BagToSet(upload_queue) : t.next_try = 0

\* A queued task whose retry time has come (a fresh task always).
Eligible(t) == t.next_try <= clock

C14_ScanEnqueuesExactly ==
    [][ScanStep =>
        LET cfg == scan.data
            base == cfg.basedir \o <<"/">>
            Slashes(r) == {i \in 1..Len(r) : r[i] = "/"}
            Name(r) == IF Slashes(r) = {} THEN r
                       ELSE SubSeq(r, Max(Slashes(r)) + 1, Len(r))
            Dots(n) == {i \in 1..Len(n) : n[i] = "."}
            Stem(n) == IF Dots(n) = {} THEN n ELSE SubSeq(n, 1, Max(Dots(n)) - 1)
            Pending(f) ==
                /\ HasPrefix(f, base)
                /\ LET r == SubSeq(f, Len(base) + 1, Len(f))
                   IN /\ r[1] # "."
                      /\ \A i \in Slashes(r) : r[i + 1] # "."
                      /\ Slashes(r) = {} \/ cfg.dated_subdirectories
                      /\ ~HasSuffix(Stem(Name(r)), Marker)
                /\ cfg.suffix = <<>> \/ HasSuffix(f, cfg.suffix)
            expected == {f \in files : Pending(f)}
        IN /\ queued_files' = queued_files \cup expected
           /\ upload_queue' = upload_queue (+)
                SetToBag({MkTask(f, cfg, 0) : f \in expected \ queued_files})]_vars

\* A scan with a suffix and with recursion has enqueued a file of the directory
\* and one of a subdirectory, and has passed over the marked and the hidden ones.
C14_Witness ==
    /\ scan.pc = "done"
    /\ scan.data.suffix = <<".", "m">>
    /\ {FileAM, FileSubC} \subseteq queued_files
    /\ queued_files \cap {FileAMDone, FileHidden, FileHiddenDirC, FileB} = {}

\* C12: handling of a successful delivery of an existing file.  With
\* delete_after_upload the file is gone and no marker-named file has appeared;
\* otherwise the file now exists under the marker name and no longer under the
\* original one, the marker name being the path with "_uploaded" inserted
\* before the last '.' of the file name, or appended when the file name has no
\* '.', whatever the directory part contains.
C12_SuccessHandling ==
    [][(SuccessStep /\ task.path \in files) =>
        LET path == task.path
            slash == FindLastOf(path, "/")
            dots == {i \in slash + 1..Len(path) : path[i] = "."}
            marked == IF dots = {} THEN path \o Marker
                      ELSE SubSeq(path, 1, Max(dots) - 1) \o Marker
                              \o SubSeq(path, Max(dots), Len(path))
        IN IF task.config.delete_after_upload
           THEN /\ path \notin files'
                /\ marked \notin files => marked \notin files'
           ELSE /\ marked \in files'
                /\ path \notin files']_vars

\* C13: the rename and the scan's test agree.  When a delivery with
\* delete_after_upload unset has succeeded, the file name of the name the file
\* was renamed to has a stem ending with "_uploaded", the delivered file is no
\* longer on disk under its original name, and no scan of the directory,
\* whatever its settings, passes either name to enqueue_upload.
C13_RenamedIsSkippedByScan ==
    [][(SuccessStep /\ task.path \in files /\ ~task.config.delete_after_upload) =>
        LET renamed == Renamed(task.path)
            filename == SubSeq(renamed, FindLastOf(renamed, "/") + 1, Len(renamed))
        IN /\ StemUploaded(filename)
           /\ \A cfg \in ScanConfigs :
                scan_directory(files', cfg, cfg.basedir) \cap {task.path, renamed} = {}]_vars

\* C19: without shutdown, with fair scheduling, advancing time and deliveries
\* that return, a task that waits in the queue with a retry time is eventually
\* popped for a delivery attempt, however the recorder keeps enqueueing fresh
\* tasks.  (Tasks of equal next_try are left out: their order is the heap's.)
C19_RetryTaskEventuallyPopped ==
    \A c \in BusyCalls : \A n \in 1..MaxTime :
        (MkTask(c[1], c[2], n) \in BagToSet(upload_queue))
            ~> (wpc = "upload" /\ task = MkTask(c[1], c[2], n))

====
